---- MODULE Spec2Model ----
(***************************************************************************)
(* Alias-aware help resolution of the jj command line:                     *)
(* cli/src/commands/help.rs (cmd_help, resolve_alias,                      *)
(* format_alias_definition, find_keyword, KEYWORDS).                       *)
(*                                                                         *)
(* One help request is one run of cmd_help.  The request (HelpArgs), the   *)
(* alias table of the configuration and the command tree of the clap       *)
(* application are fixed in the initial state; the actions are the steps   *)
(* of cmd_help in program order.                                           *)
(***************************************************************************)
EXTENDS Integers, Sequences, FiniteSets, TLC

(***************************************************************************)
(* Bounds of the model.                                                    *)
(***************************************************************************)
\* longest alias definition of a configured table
MaxDefLen == 2
\* longest token list of a help request (HelpArgs.command)
MaxArgs == 2

(***************************************************************************)
(* Token universe.                                                         *)
(***************************************************************************)
\* names that the configuration may define under [aliases]
AliasNames == {"a", "b", "c"}
\* names of the aliases configured in the help-request scenarios
HelpAliasNames == {"a", "b"}
\* a flag-like token, as passed after `--` in `jj help log -- -r`
Flags == {"-r"}
\* tokens that alias definitions of the resolver scenarios are made of
ResolveTokens == AliasNames \cup {"log"}
\* tokens of the help requests and of their alias definitions; a name of
\* HelpAliasNames that the table does not define is an unknown command name
Tokens == HelpAliasNames \cup {"log", "op"} \cup Flags

SeqsUpTo(S, n) == UNION {[1..k -> S] : k \in 0..n}

\* alias tables: a function from the configured names to their definitions
TablesOver(K, T) == UNION {[S -> SeqsUpTo(T, MaxDefLen)] : S \in SUBSET K}

\* the tables that define each of their names as itself
SelfCyclicTables(K) == {[n \in S |-> <<n>>] : S \in SUBSET K}

\* the token lists of a request, and those led by a given token
Requests == SeqsUpTo(Tokens, MaxArgs)
LedBy(t) == {r \in Requests : r # <<>> /\ r[1] = t}

\* Option<T>: <<>> is None, <<v>> is Some(v)
None == <<>>
Some(v) == <<v>>
IsSome(o) == o # <<>>
Unwrap(o) == o[1]

(***************************************************************************)
(* The command tree of the clap application (command.app()).  A node is    *)
(* the path of subcommand names leading to it; the root is the empty path. *)
(*   jj          subcommands log, op; no positional arguments              *)
(*   jj log      no subcommands; positional arguments (filesets)           *)
(*   jj op       subcommands log; no positional arguments                  *)
(*   jj op log   no subcommands; no positional arguments                   *)
(***************************************************************************)
Root == <<>>

Nodes == {<<>>, <<"log">>, <<"op">>, <<"op", "log">>}

Children(node) ==
    IF node = <<>> THEN {"log", "op"}
    ELSE IF node = <<"op">> THEN {"log"}
    ELSE {}

HasPositionals(node) == node = <<"log">>

\* Command::find_subcommand / find_subcommand_mut
find_subcommand(node, name) ==
    IF name \in Children(node) THEN Some(Append(node, name)) ELSE None

\* Command::render_long_help
render_long_help(node) ==
    IF node = <<>> THEN "Usage: jj [OPTIONS] <COMMAND>"
    ELSE IF node = <<"log">> THEN "Usage: jj log [OPTIONS] [FILESETS]..."
    ELSE IF node = <<"op">> THEN "Usage: jj operation [OPTIONS] <COMMAND>"
    ELSE "Usage: jj operation log [OPTIONS]"

(***************************************************************************)
(* The keyword registry.                                                   *)
(***************************************************************************)
KEYWORDS ==
    << [name |-> "bookmarks", content |-> "bookmarks.md"],
       [name |-> "config",    content |-> "config.md"],
       [name |-> "filesets",  content |-> "filesets.md"],
       [name |-> "glossary",  content |-> "glossary.md"],
       [name |-> "revsets",   content |-> "revsets.md"],
       [name |-> "templates", content |-> "templates.md"],
       [name |-> "tutorial",  content |-> "tutorial.md"] >>

KeywordNames == {KEYWORDS[i].name : i \in 1..Len(KEYWORDS)}

\* a keyword name that no entry of KEYWORDS has
UnregisteredKeywords == {"operations"}

\* find_keyword with the comparison negated: the first entry of another name
find_keyword_negated(name) ==
    LET hits == {i \in 1..Len(KEYWORDS) : KEYWORDS[i].name # name}
    IN  IF hits = {} THEN None
        ELSE Some(KEYWORDS[CHOOSE i \in hits : \A j \in hits : i <= j])

\* KEYWORDS.iter().find(|keyword| keyword.name == name)
find_keyword(name) ==
    LET hits == {i \in 1..Len(KEYWORDS) : KEYWORDS[i].name = name}
    IN  IF hits = {} THEN None
        ELSE Some(KEYWORDS[CHOOSE i \in hits : \A j \in hits : i <= j])

(***************************************************************************)
(* format_alias_definition: shlex::try_join quotes each token and joins    *)
(* the tokens with one space.  A token made only of characters that need   *)
(* no quoting is left as it is; the empty token is written as two quotes.  *)
(* try_join fails only on a token that holds a NUL byte, which no          *)
(* configured token of the model does.                                     *)
(***************************************************************************)
shlex_quote(t) == IF t = "" THEN "''" ELSE t

RECURSIVE shlex_join(_)
shlex_join(ts) ==
    IF ts = <<>> THEN ""
    ELSE IF Len(ts) = 1 THEN shlex_quote(ts[1])
    ELSE shlex_quote(ts[1]) \o " " \o shlex_join(Tail(ts))

format_alias_definition(alias_definition) ==
    "Alias for \"" \o shlex_join(alias_definition) \o "\""

\* StyledStr::ansi(): the same text with its styling escapes
ansi(text) == "ESC[1m" \o text \o "ESC[0m"

(***************************************************************************)
(* app.try_get_matches_from_mut(args_to_get_command): clap's parse of the  *)
(* effective path below the binary name.  At a node, a token that names a  *)
(* subcommand descends; a flag is an unknown argument, except `-r` of      *)
(* `jj log`, which takes the next token as its value; any other token is a *)
(* positional value where the node takes positionals, an unrecognized      *)
(* subcommand where the node has subcommands, and an unexpected argument   *)
(* elsewhere.  Of the errors only the unrecognized subcommand carries      *)
(* ContextKind::InvalidSubcommand.                                         *)
(***************************************************************************)
RECURSIVE try_get_matches_from(_, _)
try_get_matches_from(node, toks) ==
    IF toks = <<>> THEN
        IF Children(node) # {} THEN "MissingSubcommand" ELSE "Ok"
    ELSE IF toks[1] \in Flags THEN
        IF node = <<"log">> THEN
            IF Len(toks) = 1 THEN "InvalidValue"
            ELSE try_get_matches_from(node, Tail(Tail(toks)))
        ELSE "UnknownArgument"
    ELSE IF toks[1] \in Children(node) THEN
        try_get_matches_from(Append(node, toks[1]), Tail(toks))
    ELSE IF HasPositionals(node) THEN
        try_get_matches_from(node, Tail(toks))
    ELSE IF Children(node) # {} THEN "InvalidSubcommand"
    ELSE "UnknownArgument"

(***************************************************************************)
(* State.                                                                  *)
(***************************************************************************)
VARIABLES
    aliases,        \* the [aliases] table of the configuration
    args,           \* HelpArgs: [command, keyword]
    pc,             \* position in cmd_help
    callee,         \* alias_name of the entered expand_alias_recursively call
    stack,          \* alias names of the calls waiting for their recursive call
    seen_aliases,   \* the seen-set of resolve_alias
    ret,            \* value returned by the last finished expansion call
    resolved,       \* result of resolve_alias: None or Some(<<original, resolved>>)
    resolved_alias_definition,
    command_path,
    subcommand_depth,
    current_cmd,
    subcommand,     \* accumulator of the try_fold over the mutable tree
    fold_i,         \* tokens consumed by the try_fold
    pager,          \* ui.request_pager() has been called
    stdout,         \* the writes to ui.stdout(), in order
    result          \* "none" while running, then "Ok", an error or "panic"

vars == <<aliases, args, pc, callee, stack, seen_aliases, ret, resolved,
          resolved_alias_definition, command_path, subcommand_depth,
          current_cmd, subcommand, fold_i, pager, stdout, result>>

input == <<aliases, args>>
expansion == <<callee, stack, seen_aliases, ret>>
matching == <<subcommand_depth, current_cmd, subcommand, fold_i>>
output == <<pager, stdout>>

Errors == {"CyclicAlias", "ExtraneousAliasArguments", "InvalidSubcommand"}

Locals ==
    /\ pc = "cmd_help"
    /\ callee = ""
    /\ stack = <<>>
    /\ seen_aliases = {}
    /\ ret = <<>>
    /\ resolved = None
    /\ resolved_alias_definition = None
    /\ command_path = <<>>
    /\ subcommand_depth = 0
    /\ current_cmd = Root
    /\ subcommand = None
    /\ fold_i = 0
    /\ pager = FALSE
    /\ stdout = <<>>
    /\ result = "none"

\* a help request: a keyword and no command, or a command path and no keyword
\* (clap's conflicts_with).  The requests led by the name a meet every table
\* over HelpAliasNames; cmd_help reads of the table, for any other request,
\* only whether its first token is a key, and those requests meet the tables
\* of every set of keys.
Init ==
    /\ \/ /\ aliases \in TablesOver(HelpAliasNames, Tokens)
          /\ args \in [command : LedBy("a"), keyword : {None}]
       \/ /\ aliases \in SelfCyclicTables(HelpAliasNames)
          /\ args \in [command : Requests \ LedBy("a"), keyword : {None}]
       \/ /\ aliases \in SelfCyclicTables(HelpAliasNames)
          /\ args \in [command : {<<>>},
                       keyword : {Some(k) : k \in KeywordNames \cup UnregisteredKeywords}]
    /\ Locals

\* resolve(table, name) for every table over the alias names and every name
InitResolve ==
    /\ aliases \in TablesOver(AliasNames, ResolveTokens)
    /\ args \in [command : {<<n>> : n \in AliasNames \cup {"log"}}, keyword : {None}]
    /\ Locals

(***************************************************************************)
(* resolve_alias and expand_alias_recursively.                             *)
(***************************************************************************)
\* the keys of the [aliases] table: config.table_keys("aliases")
alias_keys == DOMAIN aliases

\* the configured name is expanded further: its definition leads with an alias
LeadsWithAlias(definition) ==
    definition # <<>> /\ definition[1] \in alias_keys

\* the expansion of the leading alias, then the rest of the definition
ExtendExpansion(expanded, definition) == expanded \o Tail(definition)

\* ResolveNotAlias without the look into the keys: the missing definition is
\* read as an empty one and the name is taken for an alias
ResolveNotAliasAsEmpty ==
    /\ pc = "cmd_help"
    /\ args.keyword = None
    /\ args.command # <<>>
    /\ args.command[1] \notin alias_keys
    /\ resolved' = Some(<< <<>>, <<>> >>)
    /\ pc' = "resolved"
    /\ UNCHANGED <<input, expansion, resolved_alias_definition, command_path,
                   matching, output, result>>

\* resolve_alias, the name is no key of the table: Ok(None)
ResolveNotAlias ==
    /\ pc = "cmd_help"
    /\ args.keyword = None
    /\ args.command # <<>>
    /\ args.command[1] \notin alias_keys
    /\ resolved' = None
    /\ pc' = "resolved"
    /\ UNCHANGED <<input, expansion, resolved_alias_definition, command_path,
                   matching, output, result>>

\* resolve_alias, the name is a key: a fresh seen-set, and the first call of
\* expand_alias_recursively on the name itself
ResolveBegin ==
    /\ pc = "cmd_help"
    /\ args.keyword = None
    /\ args.command # <<>>
    /\ args.command[1] \in alias_keys
    /\ seen_aliases' = {}
    /\ callee' = args.command[1]
    /\ stack' = <<>>
    /\ pc' = "expand"
    /\ UNCHANGED <<input, ret, resolved, resolved_alias_definition,
                   command_path, matching, output, result>>

\* expand_alias_recursively entered on a name of the seen-set: the error, which
\* `?` carries through every waiting call without recursing further
ExpandCyclic ==
    /\ pc = "expand"
    /\ callee \in seen_aliases
    /\ pc' = "expand_err"
    /\ UNCHANGED <<input, expansion, resolved, resolved_alias_definition,
                   command_path, matching, output, result>>

\* ResolveFail with the error dropped: the name is taken for no alias
ResolveFailSwallowed ==
    /\ pc = "expand_err"
    /\ resolved' = None
    /\ pc' = "resolved"
    /\ UNCHANGED <<input, expansion, resolved_alias_definition, command_path,
                   matching, output, result>>

\* the `?` of resolve_alias and of cmd_help on the error of the expansion
ResolveFail ==
    /\ pc = "expand_err"
    /\ result' = "CyclicAlias"
    /\ pc' = "done"
    /\ UNCHANGED <<input, expansion, resolved, resolved_alias_definition,
                   command_path, matching, output>>

\* ExpandRecurse without the look into the seen-set (stopped one call past the
\* number of alias names)
ExpandRecurseUnchecked ==
    /\ pc = "expand"
    /\ Len(stack) <= Cardinality(alias_keys)
    /\ LeadsWithAlias(aliases[callee])
    /\ seen_aliases' = seen_aliases \cup {callee}
    /\ stack' = Append(stack, callee)
    /\ callee' = aliases[callee][1]
    /\ pc' = "expand"
    /\ UNCHANGED <<input, ret, resolved, resolved_alias_definition,
                   command_path, matching, output, result>>

\* expand_alias_recursively entered on a new name whose definition leads with
\* an alias: the name joins the seen-set and the leading alias is expanded
ExpandRecurse ==
    /\ pc = "expand"
    /\ callee \notin seen_aliases
    /\ LeadsWithAlias(aliases[callee])
    /\ seen_aliases' = seen_aliases \cup {callee}
    /\ stack' = Append(stack, callee)
    /\ callee' = aliases[callee][1]
    /\ pc' = "expand"
    /\ UNCHANGED <<input, ret, resolved, resolved_alias_definition,
                   command_path, matching, output, result>>

\* expand_alias_recursively entered on a new name whose definition does not
\* lead with an alias: the definition is the expansion
ExpandLeaf ==
    /\ pc = "expand"
    /\ callee \notin seen_aliases
    /\ ~LeadsWithAlias(aliases[callee])
    /\ seen_aliases' = seen_aliases \cup {callee}
    /\ ret' = aliases[callee]
    /\ pc' = "expanded"
    /\ UNCHANGED <<input, callee, stack, resolved, resolved_alias_definition,
                   command_path, matching, output, result>>

\* the recursive call returned to the waiting call, which appends the rest of
\* its own definition and returns
ExpandReturn ==
    /\ pc = "expanded"
    /\ stack # <<>>
    /\ ret' = ExtendExpansion(ret, aliases[stack[Len(stack)]])
    /\ stack' = SubSeq(stack, 1, Len(stack) - 1)
    /\ pc' = "expanded"
    /\ UNCHANGED <<input, callee, seen_aliases, resolved,
                   resolved_alias_definition, command_path, matching, output,
                   result>>

\* resolve_alias returns Some((alias_definition, resolved_definition))
ResolveEnd ==
    /\ pc = "expanded"
    /\ stack = <<>>
    /\ resolved' = Some(<<aliases[args.command[1]], ret>>)
    /\ pc' = "resolved"
    /\ UNCHANGED <<input, expansion, resolved_alias_definition, command_path,
                   matching, output, result>>

(***************************************************************************)
(* cmd_help.                                                               *)
(***************************************************************************)
\* keyword request: find_keyword(name).expect(..), then the pager
KeywordLookup ==
    /\ pc = "cmd_help"
    /\ IsSome(args.keyword)
    /\ IF IsSome(find_keyword(Unwrap(args.keyword)))
       THEN /\ pager' = TRUE
            /\ pc' = "keyword_write"
            /\ result' = result
       ELSE /\ pager' = pager
            /\ pc' = "done"
            /\ result' = "panic"
    /\ UNCHANGED <<input, expansion, resolved, resolved_alias_definition,
                   command_path, matching, stdout>>

\* write!(ui.stdout(), "{}", keyword.content)
KeywordWrite ==
    /\ pc = "keyword_write"
    /\ stdout' = Append(stdout, Unwrap(find_keyword(Unwrap(args.keyword))).content)
    /\ result' = "Ok"
    /\ pc' = "done"
    /\ UNCHANGED <<input, expansion, resolved, resolved_alias_definition,
                   command_path, matching, pager>>

\* no first argument: command_path is args.command
NoFirstArg ==
    /\ pc = "cmd_help"
    /\ args.keyword = None
    /\ args.command = <<>>
    /\ command_path' = args.command
    /\ pc' = "validate"
    /\ UNCHANGED <<input, expansion, resolved, resolved_alias_definition,
                   matching, output, result>>

\* the first argument is no alias: command_path is args.command
PathOfCommand ==
    /\ pc = "resolved"
    /\ resolved = None
    /\ command_path' = args.command
    /\ pc' = "validate"
    /\ UNCHANGED <<input, expansion, resolved, resolved_alias_definition,
                   matching, output, result>>

\* AliasWithArguments with the further arguments ignored
AliasWithArgumentsIgnored ==
    /\ pc = "resolved"
    /\ IsSome(resolved)
    /\ Len(args.command) > 1
    /\ resolved_alias_definition' = Some(Unwrap(resolved)[1])
    /\ command_path' = Unwrap(resolved)[2]
    /\ pc' = "validate"
    /\ UNCHANGED <<input, expansion, resolved, matching, output, result>>

\* the first argument is an alias and more arguments follow it
AliasWithArguments ==
    /\ pc = "resolved"
    /\ IsSome(resolved)
    /\ Len(args.command) > 1
    /\ result' = "ExtraneousAliasArguments"
    /\ pc' = "done"
    /\ UNCHANGED <<input, expansion, resolved, resolved_alias_definition,
                   command_path, matching, output>>

\* the first argument is an alias and the only argument
PathOfAlias ==
    /\ pc = "resolved"
    /\ IsSome(resolved)
    /\ Len(args.command) <= 1
    /\ resolved_alias_definition' = Some(Unwrap(resolved)[1])
    /\ command_path' = Unwrap(resolved)[2]
    /\ pc' = "validate"
    /\ UNCHANGED <<input, expansion, resolved, matching, output, result>>

\* IsInvalidSubcommand that takes every error of the parse
IsAnyError(err) == err # "Ok"

\* the error of the parse that cmd_help returns
IsInvalidSubcommand(err) == err = "InvalidSubcommand"

\* ValidateInvalid with the pager requested before the parse
ValidateInvalidAfterPager ==
    /\ pc = "validate"
    /\ IsInvalidSubcommand(try_get_matches_from(Root, command_path))
    /\ pager' = TRUE
    /\ result' = "InvalidSubcommand"
    /\ pc' = "done"
    /\ UNCHANGED <<input, expansion, resolved, resolved_alias_definition,
                   command_path, matching, stdout>>

\* app.try_get_matches_from_mut: only an InvalidSubcommand error is returned
ValidateInvalid ==
    /\ pc = "validate"
    /\ IsInvalidSubcommand(try_get_matches_from(Root, command_path))
    /\ result' = "InvalidSubcommand"
    /\ pc' = "done"
    /\ UNCHANGED <<input, expansion, resolved, resolved_alias_definition,
                   command_path, matching, output>>

ValidatePass ==
    /\ pc = "validate"
    /\ ~IsInvalidSubcommand(try_get_matches_from(Root, command_path))
    /\ subcommand_depth' = 0
    /\ current_cmd' = Root
    /\ pc' = "walk"
    /\ UNCHANGED <<input, expansion, resolved, resolved_alias_definition,
                   command_path, subcommand, fold_i, output, result>>

\* WalkDescend with every name looked up in the root
WalkDescendFromRoot ==
    /\ pc = "walk"
    /\ subcommand_depth < Len(command_path)
    /\ IsSome(find_subcommand(Root, command_path[subcommand_depth + 1]))
    /\ current_cmd' = Unwrap(find_subcommand(Root, command_path[subcommand_depth + 1]))
    /\ subcommand_depth' = subcommand_depth + 1
    /\ UNCHANGED <<input, expansion, resolved, resolved_alias_definition,
                   command_path, subcommand, fold_i, output, result, pc>>

\* WalkDescend that counts the name and stays at current_cmd
WalkDescendInPlace ==
    /\ pc = "walk"
    /\ subcommand_depth < Len(command_path)
    /\ IsSome(find_subcommand(current_cmd, command_path[subcommand_depth + 1]))
    /\ subcommand_depth' = subcommand_depth + 1
    /\ UNCHANGED <<input, expansion, resolved, resolved_alias_definition,
                   command_path, current_cmd, subcommand, fold_i, output,
                   result, pc>>

\* the first walk: the next name is a subcommand of current_cmd
WalkDescend ==
    /\ pc = "walk"
    /\ subcommand_depth < Len(command_path)
    /\ IsSome(find_subcommand(current_cmd, command_path[subcommand_depth + 1]))
    /\ current_cmd' = Unwrap(find_subcommand(current_cmd, command_path[subcommand_depth + 1]))
    /\ subcommand_depth' = subcommand_depth + 1
    /\ UNCHANGED <<input, expansion, resolved, resolved_alias_definition,
                   command_path, subcommand, fold_i, output, result, pc>>

\* the first walk ends: the names are used up, or the next is no subcommand
WalkStop ==
    /\ pc = "walk"
    /\ \/ subcommand_depth >= Len(command_path)
       \/ /\ subcommand_depth < Len(command_path)
          /\ ~IsSome(find_subcommand(current_cmd, command_path[subcommand_depth + 1]))
    /\ subcommand' = Some(Root)
    /\ fold_i' = 0
    /\ pc' = "fold"
    /\ UNCHANGED <<input, expansion, resolved, resolved_alias_definition,
                   command_path, subcommand_depth, current_cmd, output, result>>

\* names the try_fold iterates over: command_path.iter().take(subcommand_depth)
FoldLen == IF subcommand_depth < Len(command_path)
           THEN subcommand_depth ELSE Len(command_path)

\* the second walk: one step of try_fold with find_subcommand_mut
FoldStep ==
    /\ pc = "fold"
    /\ IsSome(subcommand)
    /\ fold_i < FoldLen
    /\ subcommand' = find_subcommand(Unwrap(subcommand), command_path[fold_i + 1])
    /\ fold_i' = fold_i + 1
    /\ UNCHANGED <<input, expansion, resolved, resolved_alias_definition,
                   command_path, subcommand_depth, current_cmd, output, result, pc>>

\* the try_fold ended: unwrap()
FoldUnwrap ==
    /\ pc = "fold"
    /\ ~IsSome(subcommand) \/ fold_i >= FoldLen
    /\ IF IsSome(subcommand)
       THEN pc' = "pager" /\ result' = result
       ELSE pc' = "done" /\ result' = "panic"
    /\ UNCHANGED <<input, expansion, resolved, resolved_alias_definition,
                   command_path, matching, output>>

\* ui.request_pager()
RequestPager ==
    /\ pc = "pager"
    /\ pager' = TRUE
    /\ pc' = "banner"
    /\ UNCHANGED <<input, expansion, resolved, resolved_alias_definition,
                   command_path, matching, stdout, result>>

\* WriteBanner of the expanded definition
WriteBannerOfExpansion ==
    /\ pc = "banner"
    /\ IsSome(resolved_alias_definition)
    /\ stdout' = Append(stdout, format_alias_definition(command_path) \o "\n")
    /\ pc' = "separator"
    /\ UNCHANGED <<input, expansion, resolved, resolved_alias_definition,
                   command_path, matching, pager, result>>

\* writeln!(ui.stdout(), "{alias_display}")
WriteBanner ==
    /\ pc = "banner"
    /\ IsSome(resolved_alias_definition)
    /\ stdout' = Append(stdout,
            format_alias_definition(Unwrap(resolved_alias_definition)) \o "\n")
    /\ pc' = "separator"
    /\ UNCHANGED <<input, expansion, resolved, resolved_alias_definition,
                   command_path, matching, pager, result>>

\* writeln!(ui.stdout())
WriteSeparator ==
    /\ pc = "separator"
    /\ stdout' = Append(stdout, "\n")
    /\ pc' = "render"
    /\ UNCHANGED <<input, expansion, resolved, resolved_alias_definition,
                   command_path, matching, pager, result>>

\* no alias was resolved: nothing is written before the help
NoBanner ==
    /\ pc = "banner"
    /\ ~IsSome(resolved_alias_definition)
    /\ pc' = "render"
    /\ UNCHANGED <<input, expansion, resolved, resolved_alias_definition,
                   command_path, matching, output, result>>

\* subcommand.render_long_help(), written styled or plain by ui.color()
RenderHelp ==
    /\ pc = "render"
    /\ \E color \in BOOLEAN :
          stdout' = Append(stdout,
                IF color THEN ansi(render_long_help(Unwrap(subcommand)))
                ELSE render_long_help(Unwrap(subcommand)))
    /\ result' = "Ok"
    /\ pc' = "done"
    /\ UNCHANGED <<input, expansion, resolved, resolved_alias_definition,
                   command_path, matching, pager>>

NextResolve ==
    \/ ResolveNotAlias
    \/ ResolveBegin
    \/ ExpandCyclic
    \/ ResolveFail
    \/ ExpandRecurse
    \/ ExpandLeaf
    \/ ExpandReturn
    \/ ResolveEnd

Next ==
    \/ KeywordLookup
    \/ KeywordWrite
    \/ NoFirstArg
    \/ NextResolve
    \/ PathOfCommand
    \/ AliasWithArguments
    \/ PathOfAlias
    \/ ValidateInvalid
    \/ ValidatePass
    \/ WalkDescend
    \/ WalkStop
    \/ FoldStep
    \/ FoldUnwrap
    \/ RequestPager
    \/ WriteBanner
    \/ WriteSeparator
    \/ NoBanner
    \/ RenderHelp

\* a help request
Spec == Init /\ [][Next]_vars

\* resolve_alias alone, on every table and name
SpecResolve == InitResolve /\ [][NextResolve]_vars

\* resolve_alias alone, where a call that can take a step takes it
FairSpecResolve == SpecResolve /\ WF_vars(NextResolve)

(***************************************************************************)
(* Alias expansion.                                                        *)
(***************************************************************************)
\* the name given to resolve_alias
RequestedName == args.command[1]

\* replacing the leading token by its definition, repeatedly, expands an
\* alias name a second time
RECURSIVE ChainRevisits(_, _)
ChainRevisits(toks, visited) ==
    /\ toks # <<>>
    /\ toks[1] \in alias_keys
    /\ \/ toks[1] \in visited
       \/ ChainRevisits(aliases[toks[1]] \o Tail(toks), visited \cup {toks[1]})

\* the leading token replaced by its definition while it is an alias name
RECURSIVE ReplaceLeading(_)
ReplaceLeading(toks) ==
    IF toks # <<>> /\ toks[1] \in alias_keys
    THEN ReplaceLeading(aliases[toks[1]] \o Tail(toks))
    ELSE toks

\* some alias on the chain of leading tokens has an empty definition
RECURSIVE ChainHasEmpty(_, _)
ChainHasEmpty(name, visited) ==
    /\ name \in alias_keys
    /\ name \notin visited
    /\ \/ aliases[name] = <<>>
       \/ ChainHasEmpty(aliases[name][1], visited \cup {name})

\* resolve_alias returned Some((original, expanded))
Resolved == pc = "resolved" /\ IsSome(resolved)

ExpansionOfNonEmptyChain ==
    (/\ args.command # <<>>
     /\ RequestedName \in alias_keys
     /\ ~ChainRevisits(<<RequestedName>>, {})
     /\ ~ChainHasEmpty(RequestedName, {}))
    => /\ pc # "expand_err"
       /\ result # "CyclicAlias"
       /\ Resolved =>
            /\ Unwrap(resolved)[1] = aliases[RequestedName]
            /\ Unwrap(resolved)[2] = ReplaceLeading(<<RequestedName>>)
            /\ Unwrap(resolved)[2] # <<>>
            /\ Unwrap(resolved)[2][1] \notin alias_keys

\* a chain of three aliases was expanded
ExpandedChainOfThree ==
    /\ Resolved
    /\ Cardinality(seen_aliases) = 3
    /\ Len(Unwrap(resolved)[2]) > 2

\* C2: a call of the expansion on a name that is already in the seen-set
\* fails without recursing further (the seen-set, the waiting calls and the
\* returned value stay as they are), and the failure of the expansion makes
\* resolve, and with it the request, fail with CyclicAlias.
C2_SeenNameFailsCyclic ==
    [][ /\ (pc = "expand" /\ callee \in seen_aliases)
            => (pc' = "expand_err" /\ UNCHANGED expansion /\ resolved' = None)
        /\ (pc = "expand_err")
            => (pc' = "done" /\ result' = "CyclicAlias" /\ resolved' = None
                /\ UNCHANGED expansion) ]_vars

\* an indirect cycle through two aliases ended in CyclicAlias
IndirectCycleFailed ==
    /\ result = "CyclicAlias"
    /\ Len(stack) = 2
    /\ callee = stack[1]
    /\ callee # stack[2]

\* resolve_alias has returned, or has failed
Returned == pc \in {"resolved", "done"}

\* how far a call of resolve_alias is from its return
Rank ==
    CASE pc = "cmd_help" -> 4
      [] pc = "expand" -> 3
      [] pc = "expand_err" -> 2
      [] pc = "expanded" -> 1
      [] OTHER -> 0

\* a natural number that every step of resolve_alias makes smaller
Measure ==
    3 * (Cardinality(alias_keys) - Cardinality(seen_aliases)) + Len(stack) + Rank

\* C3: alias expansion terminates.  Every entered call that does not fail
\* adds a new alias name to the seen-set, no more calls wait than there are
\* alias names, a call that has not returned can take a step, and every
\* step brings the return nearer: resolve returns a result or fails.
C3_ExpansionTerminates ==
    /\ [](/\ Len(stack) <= Cardinality(alias_keys)
          /\ seen_aliases \subseteq alias_keys
          /\ Measure \in Nat
          /\ ~Returned => ENABLED NextResolve)
    /\ [][ /\ Measure' < Measure
           /\ (pc = "expand" /\ pc' \in {"expand", "expanded"})
                => (seen_aliases \subseteq seen_aliases'
                    /\ seen_aliases' # seen_aliases) ]_vars

\* under weak fairness every call of resolve_alias returns
ExpansionEventuallyReturns == <>[]Returned

\* a resolve that recursed as often as there are alias names has returned
ResolveReturnedAfterAllNames ==
    /\ Returned
    /\ Cardinality(seen_aliases) = Cardinality(AliasNames)

(***************************************************************************)
(* Help requests.                                                          *)
(***************************************************************************)
\* the request is a command-path request
CommandRequest == args.keyword = None

\* the first token of the request names a configured alias
FirstIsAlias == args.command # <<>> /\ args.command[1] \in alias_keys

\* the chain of leading aliases that starts at the name comes back to a name
\* that is on it
RECURSIVE LeadingChainCycles(_, _)
LeadingChainCycles(name, visited) ==
    /\ LeadsWithAlias(aliases[name])
    /\ \/ aliases[name][1] \in visited \cup {name}
       \/ LeadingChainCycles(aliases[name][1], visited \cup {name})

\* the request has not come to the validation of the path
BeforeValidation ==
    pc \in {"cmd_help", "expand", "expand_err", "expanded", "resolved", "done"}

\* C4 as stated: a request whose first token names a configured alias and
\* which has a further token fails with ExtraneousAliasArguments, and no help
\* is rendered.
C4_AliasWithArgumentsFails ==
    (CommandRequest /\ FirstIsAlias /\ Len(args.command) > 1)
    => /\ BeforeValidation
       /\ stdout = <<>>
       /\ pc = "done" => result = "ExtraneousAliasArguments"

\* C4 as amended: such a request fails with CyclicAlias where the expansion
\* of the alias is cyclic and with ExtraneousAliasArguments where it is not;
\* in both cases it ends before the validation and nothing is written.
C4_AliasWithArgumentsFailsUnlessCyclic ==
    (CommandRequest /\ FirstIsAlias /\ Len(args.command) > 1)
    => /\ BeforeValidation
       /\ stdout = <<>>
       /\ ~pager
       /\ pc = "done" =>
            result = IF LeadingChainCycles(args.command[1], {})
                     THEN "CyclicAlias" ELSE "ExtraneousAliasArguments"

\* a request of an alias with a further token was refused
RefusedAliasWithArguments ==
    /\ result = "ExtraneousAliasArguments"
    /\ Len(args.command) > 1
    /\ IsSome(resolved)

(***************************************************************************)
(* The command-path matcher.                                               *)
(***************************************************************************)
\* each of the first k tokens names a child at its depth of the tree
ValidPrefix(path, k) ==
    \A i \in 1..k : path[i] \in Children(SubSeq(path, 1, i - 1))

\* the longest prefix of the tokens that is a path of the tree
MatchLen(path) ==
    CHOOSE k \in 0..Len(path) :
        /\ ValidPrefix(path, k)
        /\ \A j \in 0..Len(path) : ValidPrefix(path, j) => j <= k

\* the first walk has ended
AfterWalk ==
    \/ pc \in {"fold", "pager", "banner", "separator", "render"}
    \/ pc = "done" /\ CommandRequest /\ result \in {"Ok", "panic"}

\* C5: the matcher returns the node reached by the longest prefix of the
\* tokens that names a child at every depth, and the length of that prefix;
\* it stops at the first token that is no child of the current node.
C5_MatchIsLongestValidPrefix ==
    /\ pc = "walk" =>
          /\ ValidPrefix(command_path, subcommand_depth)
          /\ current_cmd = SubSeq(command_path, 1, subcommand_depth)
    /\ AfterWalk =>
          /\ subcommand_depth = MatchLen(command_path)
          /\ current_cmd = SubSeq(command_path, 1, subcommand_depth)
          /\ \/ subcommand_depth = Len(command_path)
             \/ command_path[subcommand_depth + 1] \notin Children(current_cmd)

\* the walk stopped before a token that names a child of the matched node
StoppedBeforeLaterChild ==
    /\ AfterWalk
    /\ subcommand_depth + 1 < Len(command_path)
    /\ \E j \in (subcommand_depth + 2)..Len(command_path) :
          command_path[j] \in Children(current_cmd)

\* C6: the matcher is total.  A command-path request never panics; the empty
\* token list is matched to the root at depth 0; the second walk finds every
\* child and ends at the node of the first walk.
C6_MatcherIsTotal ==
    CommandRequest =>
       /\ result # "panic"
       /\ (AfterWalk /\ command_path = <<>>) =>
             (subcommand_depth = 0 /\ current_cmd = Root)
       /\ pc = "fold" =>
             /\ IsSome(subcommand)
             /\ Unwrap(subcommand) = SubSeq(command_path, 1, fold_i)
       /\ pc \in {"pager", "banner", "separator", "render"} =>
             (IsSome(subcommand) /\ Unwrap(subcommand) = current_cmd)

\* the second walk went two levels down and a flag-like token was left over
FoldedTwoLevels ==
    /\ pc = "pager"
    /\ fold_i = 2
    /\ Len(command_path) = 3
    /\ command_path[3] \in Flags
    /\ Unwrap(subcommand) = <<"op", "log">>

(***************************************************************************)
(* Output.                                                                 *)
(***************************************************************************)
IsPrefix(xs, ys) == Len(xs) <= Len(ys) /\ xs = SubSeq(ys, 1, Len(xs))

\* what a successful command-path request writes, in order
ExpectedWrites(color) ==
    (IF FirstIsAlias
     THEN << format_alias_definition(aliases[args.command[1]]) \o "\n", "\n" >>
     ELSE << >>)
    \o << IF color THEN ansi(render_long_help(current_cmd))
          ELSE render_long_help(current_cmd) >>

\* C7: the pager is requested before the first write; the writes are, in
\* order, the banner of the original definition and the blank line if and
\* only if the first token was resolved as an alias, then the long help of
\* the matched node.
C7_WritesAreOrdered ==
    CommandRequest =>
       /\ stdout # <<>> => pager
       /\ \E color \in BOOLEAN :
             /\ IsPrefix(stdout, ExpectedWrites(color))
             /\ result = "Ok" => stdout = ExpectedWrites(color)

\* the help of an alias whose definition leads with another alias was written
WroteBannerOfNestedAlias ==
    /\ result = "Ok"
    /\ Len(stdout) = 3
    /\ Cardinality(seen_aliases) = 2
    /\ Unwrap(resolved_alias_definition) # command_path

\* C8: a request that failed with CyclicAlias, ExtraneousAliasArguments or
\* InvalidSubcommand has written nothing and has not requested the pager.
C8_ErrorsBeforeAnyWrite ==
    result \in Errors => (stdout = <<>> /\ ~pager)

\* an expanded alias failed the validation
AliasFailedValidation ==
    /\ result = "InvalidSubcommand"
    /\ IsSome(resolved_alias_definition)

UnknownSubcommandAt(path, k) ==
    /\ ValidPrefix(path, k - 1)
    /\ Children(SubSeq(path, 1, k - 1)) # {}
    /\ ~HasPositionals(SubSeq(path, 1, k - 1))
    /\ path[k] \notin Children(SubSeq(path, 1, k - 1))
    /\ path[k] \notin Flags

\* the validation has been passed
AfterValidation ==
    \/ pc \in {"walk", "fold", "pager", "banner", "separator", "render"}
    \/ pc = "done" /\ CommandRequest /\ result \in {"Ok", "panic"}

\* C10: the validation fails the request with InvalidSubcommand only for an
\* unknown name at a position where a subcommand was expected; with any
\* other parser error the request goes on and ends with the help of the
\* deepest matched node written.
C10_OnlyInvalidSubcommandFails ==
    /\ result = "InvalidSubcommand" =>
          \E k \in 1..Len(command_path) : UnknownSubcommandAt(command_path, k)
    /\ AfterValidation =>
          ~ \E k \in 1..Len(command_path) : UnknownSubcommandAt(command_path, k)
    /\ (pc = "done" /\ CommandRequest /\ result \notin Errors) =>
          /\ result = "Ok"
          /\ stdout[Len(stdout)] \in
                { render_long_help(SubSeq(command_path, 1, MatchLen(command_path))),
                  ansi(render_long_help(SubSeq(command_path, 1, MatchLen(command_path)))) }

\* `help log -- -r`: the parse failed on the flag and the help of log was
\* written
RenderedLogWithTrailingFlag ==
    /\ args.command = <<"log", "-r">>
    /\ try_get_matches_from(Root, command_path) = "InvalidValue"
    /\ result = "Ok"
    /\ subcommand_depth = 1
    /\ stdout = <<render_long_help(<<"log">>)>>

(***************************************************************************)
(* Names that are no alias.                                                *)
(***************************************************************************)
\* the first token of a command-path request is no key of the alias table
FirstIsNoAlias ==
    /\ CommandRequest
    /\ args.command # <<>>
    /\ args.command[1] \notin alias_keys

\* some entry of the table is defined as itself
HasCyclicEntry ==
    \E n \in alias_keys : aliases[n] # <<>> /\ aliases[n][1] = n

\* C11: for a name that is no key of the alias table, whatever the entries
\* of the table, resolve returns None and no error: no expansion is entered
\* and the request fails with neither alias error; the request then takes its
\* own tokens, unchanged, as the effective path, no alias banner is pending
\* and none is written.
C11_NoAliasKeepsRequest ==
    FirstIsNoAlias =>
       /\ pc \notin {"expand", "expand_err", "expanded"}
       /\ seen_aliases = {}
       /\ resolved = None
       /\ result \notin {"CyclicAlias", "ExtraneousAliasArguments"}
       /\ resolved_alias_definition = None
       /\ pc \notin {"cmd_help", "resolved"} => command_path = args.command
       /\ Len(stdout) <= 1
       /\ result = "Ok" =>
             stdout[1] \in { render_long_help(current_cmd),
                             ansi(render_long_help(current_cmd)) }

\* the help of a command was written from a table that has a cyclic entry
\* and a request of two tokens
RenderedBesideCyclicEntry ==
    /\ FirstIsNoAlias
    /\ HasCyclicEntry
    /\ result = "Ok"
    /\ Len(args.command) = 2
    /\ command_path = args.command

====
